---------------------------- MODULE Spec2Model ----------------------------
(***************************************************************************)
(* Model of the orderbook pipeline of doradelta/orderbook_benchmark (C++): *)
(* the L2 orderbook engine (orderbook.h), the SPSC ring (spsc_queue.h),    *)
(* the strategy loop (strategy.h) and the driver (main.cpp).               *)
(*                                                                         *)
(* Quantities are doubles in the source.  The model represents a quantity  *)
(* by an integer number of units of 1e-15, so that Qty::is_zero            *)
(* (value <= 1e-15) is  v <= 1 : 0 and 1 are "zero", 2 and 3 are not.      *)
(***************************************************************************)
EXTENDS Integers, Sequences, FiniteSets, TLC

VARIABLES
    \* ---- producer thread: the engine (orderbook.h) and the driver's loop (main.cpp)
    book,        \* the Orderbook object: bids_, asks_, cached_best_bid_, cached_best_ask_, seq_
    update,      \* the Update of the current call of apply (NoUpdate outside a loop iteration)
    send_ns,     \* the send_ns argument of that call
    notif,       \* the BookNotification that call returned
    notif1,      \* the BookNotification of the call before it, when the caller
                 \* applies one update twice in a row (NoNotification otherwise)
    prev,        \* history: the Orderbook as it was when that call was made
    n_updates,   \* updates.size()
    d_i,         \* updates consumed by the driver's loop so far
    line,        \* parse_file: the line handed to parse_line (<<>> between lines)
    n_lines,     \* parse_file: lines read after the header
    lines_ok,    \* history: how many of them were well-formed
    written,     \* history: the [price, qty] pairs the bids and the asks array
                 \* of the line were written from
    \* ---- the ring (spsc_queue.h) and the close flag (main.cpp)
    cap,         \* the template parameter Capacity
    head_,       \* producer position
    tail_,       \* consumer position
    slots,       \* slots_[i]: seq, and the element storage (st: raw, torn, live, dead)
    closed,      \* std::atomic<bool> closed
    \* ---- producer side of the ring
    p_pc,        \* where the producer thread is
    p_pos,       \* local pos of push / try_push
    p_item,      \* the argument item
    p_ret,       \* what the last try_push returned
    \* ---- consumer thread: pop / try_pop and the strategy loop (strategy.h)
    c_pc,        \* where the consumer thread is
    c_pos,       \* local pos of pop / try_pop
    c_item,      \* local item of pop / try_pop
    c_ret,       \* what the last pop / try_pop returned (an optional)
    stats,       \* the StrategyStats of run_strategy
    \* ---- environment and history
    clock,       \* the last value Clock::now_ns returned
    pushed,      \* history: the items pushed, in order of publication
    popped,      \* history: the items returned by pops, in order
    calls        \* history: counts of calls made and of failed attempts

engineVars == <<book, update, send_ns, notif, notif1, prev>>

driverVars == <<n_updates, d_i, line, n_lines, lines_ok, written>>

ringVars == <<cap, head_, tail_, slots, closed>>

producerVars == <<p_pc, p_pos, p_item, p_ret>>

consumerVars == <<c_pc, c_pos, c_item, c_ret>>

histVars == <<pushed, popped, calls>>

vars ==
    <<book, update, send_ns, notif, notif1, prev, n_updates, d_i, line, n_lines, lines_ok, written,
      cap, head_, tail_, slots, closed,
      p_pc, p_pos, p_item, p_ret, c_pc, c_pos, c_item, c_ret, stats, clock,
      pushed, popped, calls>>

(***************************************************************************)
(* Bounds of the model and input values.                                   *)
(***************************************************************************)
MaxApplies == 3          \* calls of Orderbook::apply in one run of the engine alone
MaxSnapLen == 2          \* levels in one snapshot (bids and asks together)

Prices     == {10000, 10050}     \* Price::raw values (100.00 and 100.50)
Qtys       == {0, 1, 2, 3}       \* quantities, in units of 1e-15
Timestamps == {1000}
SendTimes  == {7}
LaterSendTimes == {7, 8}         \* send_ns of a second call with the same update
Sides      == {"Bid", "Ask"}

(***************************************************************************)
(* types.h                                                                 *)
(***************************************************************************)
ZeroThreshold == 1       \* 1e-15, in units of 1e-15

is_zero_lt(v) == v < ZeroThreshold

is_zero(v) == v <= ZeroThreshold

Level(p, q) == [price |-> p, qty |-> q]

Levels == [price : Prices, qty : Qtys]

\* std::optional<Level>: a disengaged optional is one fixed value
NullOpt == [has |-> FALSE, price |-> 0, qty |-> 0]

SomeLevel(l) == [has |-> TRUE, price |-> l.price, qty |-> l.qty]

Incrementals ==
    [type : {"Incremental"}, timestamp : Timestamps, side : Sides,
     level : Levels, bids : {<<>>}, asks : {<<>>}]

SnapShapes ==
    {n \in (0..MaxSnapLen) \X (0..MaxSnapLen) : n[1] + n[2] <= MaxSnapLen}

\* the snapshots with at most MaxSnapLen levels, bids and asks together
Snapshots ==
    UNION {
        {[type |-> "Snapshot", timestamp |-> t, side |-> "Bid", level |-> Level(0, 0),
          bids |-> bl, asks |-> al] :
            t \in Timestamps, bl \in [1..n[1] -> Levels], al \in [1..n[2] -> Levels]} :
        n \in SnapShapes}

NoUpdate ==
    [type |-> "None", timestamp |-> 0, side |-> "Bid", level |-> Level(0, 0),
     bids |-> <<>>, asks |-> <<>>]

NoNotification ==
    [update_timestamp |-> 0, engine_send_ns |-> 0, best_bid |-> NullOpt,
     best_ask |-> NullOpt, seq |-> 0]

(***************************************************************************)
(* std::map<uint64_t, double>                                              *)
(***************************************************************************)
EmptyMap == [p \in {} |-> 0]

MapSet(m, k, v) == [p \in (DOMAIN m) \cup {k} |-> IF p = k THEN v ELSE m[p]]

MapErase(m, k) == [p \in (DOMAIN m) \ {k} |-> m[p]]

MapKeep(m) == m

MapClear(m) == EmptyMap

MaxKey(m) == CHOOSE k \in DOMAIN m : \A j \in DOMAIN m : j <= k

MinKey(m) == CHOOSE k \in DOMAIN m : \A j \in DOMAIN m : k <= j

(***************************************************************************)
(* orderbook.h                                                             *)
(***************************************************************************)
EmptyBook ==
    [bids_ |-> EmptyMap, asks_ |-> EmptyMap,
     cached_best_bid_ |-> NullOpt, cached_best_ask_ |-> NullOpt, seq_ |-> 0]

refresh_best_bid(bids) ==
    IF DOMAIN bids = {} THEN NullOpt
    ELSE SomeLevel(Level(MaxKey(bids), bids[MaxKey(bids)]))

refresh_best_ask(asks) ==
    IF DOMAIN asks = {} THEN NullOpt
    ELSE SomeLevel(Level(MinKey(asks), asks[MinKey(asks)]))

\* one iteration of a loop of apply_snapshot
SnapshotInsertAll(m, l) == MapSet(m, l.price, l.qty)

SnapshotInsertLastWins(m, l) ==
    IF ~is_zero(l.qty) THEN MapSet(m, l.price, l.qty) ELSE MapErase(m, l.price)

SnapshotInsert(m, l) == IF ~is_zero(l.qty) THEN MapSet(m, l.price, l.qty) ELSE m

RECURSIVE InsertLevels(_, _)
InsertLevels(m, ls) ==
    IF ls = <<>> THEN m ELSE InsertLevels(SnapshotInsert(m, Head(ls)), Tail(ls))

apply_snapshot(b, bids, asks) ==
    LET nb == InsertLevels(MapClear(b.bids_), bids)
        na == InsertLevels(MapClear(b.asks_), asks)
    IN  [b EXCEPT !.bids_ = nb, !.asks_ = na,
                  !.cached_best_bid_ = refresh_best_bid(nb),
                  !.cached_best_ask_ = refresh_best_ask(na)]

\* the monotone checks of apply_incremental
BidImprovesStrict(cache, level) == ~cache.has \/ level.price > cache.price

BidImproves(cache, level) == ~cache.has \/ level.price >= cache.price

AskImprovesAlways(cache, level) == TRUE

AskImproves(cache, level) == ~cache.has \/ level.price <= cache.price

\* if (side == Side::Bid) ... else ...
SelectsBidAlways(side) == TRUE

SelectsBid(side) == side = "Bid"

IncrementalEraseKeeps(m, level) == MapSet(m, level.price, level.qty)

IncrementalErase(m, level) == MapErase(m, level.price)

apply_incremental(b, side, level) ==
    IF SelectsBid(side) THEN
        IF is_zero(level.qty) THEN
            LET nb == IncrementalErase(b.bids_, level)
            IN  [b EXCEPT !.bids_ = nb,
                          !.cached_best_bid_ =
                              IF b.cached_best_bid_.has /\ b.cached_best_bid_.price = level.price
                              THEN refresh_best_bid(nb) ELSE @]
        ELSE
            [b EXCEPT !.bids_ = MapSet(@, level.price, level.qty),
                      !.cached_best_bid_ =
                          IF BidImproves(@, level) THEN SomeLevel(level) ELSE @]
    ELSE
        IF is_zero(level.qty) THEN
            LET na == IncrementalErase(b.asks_, level)
            IN  [b EXCEPT !.asks_ = na,
                          !.cached_best_ask_ =
                              IF b.cached_best_ask_.has /\ b.cached_best_ask_.price = level.price
                              THEN refresh_best_ask(na) ELSE @]
        ELSE
            [b EXCEPT !.asks_ = MapSet(@, level.price, level.qty),
                      !.cached_best_ask_ =
                          IF AskImproves(@, level) THEN SomeLevel(level) ELSE @]

SeqKept(s, u) == IF u.type = "Snapshot" THEN s ELSE s + 1

\* ++seq_ (a uint64_t: it cannot wrap within the bounds of the model)
SeqIncrement(s, u) == s + 1

\* the BookNotification apply returns: before is the book as the call found
\* it, after the book once the update is applied and seq_ incremented
NotificationStale(before, after, u, ns) ==
    [update_timestamp |-> u.timestamp,
     engine_send_ns   |-> ns,
     best_bid         |-> before.cached_best_bid_,
     best_ask         |-> before.cached_best_ask_,
     seq              |-> after.seq_]

Notification(before, after, u, ns) ==
    [update_timestamp |-> u.timestamp,
     engine_send_ns   |-> ns,
     best_bid         |-> after.cached_best_bid_,
     best_ask         |-> after.cached_best_ask_,
     seq              |-> after.seq_]

\* Orderbook::apply: the book after the call and the notification returned
apply(b, u, ns) ==
    LET b1 == IF u.type = "Snapshot"
              THEN apply_snapshot(b, u.bids, u.asks)
              ELSE apply_incremental(b, u.side, u.level)
        b2 == [b1 EXCEPT !.seq_ = SeqIncrement(@, u)]
    IN  [book  |-> b2, notif |-> Notification(b, b2, u, ns)]

(***************************************************************************)
(* spsc_queue.h.  Every access to slot.seq (acquire / release) and to      *)
(* closed is one step; head_ and tail_ are each touched by one thread      *)
(* only.  The element storage of a slot is raw until the first placement   *)
(* new, torn while an element is being constructed in it, live once the    *)
(* construction has completed, and dead after the destructor has run.      *)
(***************************************************************************)
MaxCapacity == 4         \* the largest Capacity the model instantiates

RECURSIVE BitAnd(_, _)
BitAnd(a, b) ==
    IF a = 0 \/ b = 0 THEN 0
    ELSE (a % 2) * (b % 2) + 2 * BitAnd(a \div 2, b \div 2)

\* static_assert((Capacity & (Capacity - 1)) == 0)
CapacityAccepted(c) == BitAnd(c, c - 1) = 0

Capacities == {c \in 1..MaxCapacity : CapacityAccepted(c)}

MASK == cap - 1

SlotOf(pos) == BitAnd(pos, MASK)

\* the constructor SPSCQueue()
FreshSlots(c) == [i \in 0..(c - 1) |-> [seq |-> i, st |-> "raw", item |-> NoNotification]]

\* what a read of storage under construction yields
TornItem == [NoNotification EXCEPT !.seq = -1]

NoneItem == [has |-> FALSE, val |-> NoNotification]

SomeItem(x) == [has |-> TRUE, val |-> x]

\* the test  seq != pos  of try_push and push
SlotFreeAlways(seq, pos) == TRUE

SlotFree(seq, pos) == seq = pos

\* the test  seq == pos + 1  of try_pop and pop
SlotReadyAlways(seq, pos) == seq >= pos + 1

SlotReady(seq, pos) == seq = pos + 1

\* the sequence number pop and try_pop leave in the slot
ReleasedSeqSame(pos) == pos + 1

ReleasedSeq(pos) == pos + cap

\* the second look at slot.seq that pop takes once it has read closed = true
RecheckSkipped(seq, pos) == FALSE

Recheck(seq, pos) == SlotReady(seq, pos)

(***************************************************************************)
(* clock.h and strategy.h                                                  *)
(***************************************************************************)
MaxClock == 2            \* Clock::now_ns stops advancing here
Width    == 6            \* bits of the model's uint64_t

Modulus == 2 ^ Width

UINT64_MAX == Modulus - 1

\* Clock::now_ns is monotonic: it returns the last value or a later one
Now(c) == {t \in {c, c + 1} : t <= MaxClock}

\* a - b in uint64_t arithmetic
Sub64Reversed(a, b) == (b - a) % Modulus

Sub64(a, b) == (a - b) % Modulus

\* a StrategyStats whose min_latency_ns starts at 0
FreshStatsMinZero ==
    [count |-> 0, total_latency_ns |-> 0, min_latency_ns |-> 0,
     max_latency_ns |-> 0, latencies |-> <<>>]

FreshStats ==
    [count |-> 0, total_latency_ns |-> 0, min_latency_ns |-> UINT64_MAX,
     max_latency_ns |-> 0, latencies |-> <<>>]

\* StrategyStats::record
record(st, lat) ==
    [count            |-> (st.count + 1) % Modulus,
     total_latency_ns |-> (st.total_latency_ns + lat) % Modulus,
     min_latency_ns   |-> IF lat < st.min_latency_ns THEN lat ELSE st.min_latency_ns,
     max_latency_ns   |-> IF lat > st.max_latency_ns THEN lat ELSE st.max_latency_ns,
     latencies        |-> Append(st.latencies, lat)]

\* StrategyStats::avg_ns
avg_ns(st) ==
    IF st.count > 0 THEN st.total_latency_ns \div st.count ELSE 0

(***************************************************************************)
(* parser.h.  A line is a sequence of characters; 's' and 'i' select the   *)
(* parser of the line, ',' separates fields, '"' opens and closes a quoted *)
(* field, and "x" stands for any other character.                          *)
(***************************************************************************)
MaxLineLen == 9          \* characters in a line
MaxLines   == 2          \* lines after the header

FirstChars == {"s", "i", "x"}
RestChars  == {",", "\"", "x"}

\* the lines of at most MaxLineLen characters that start with one of first
Lines(first) ==
    UNION {{<<c>> \o t : c \in first, t \in [1..k -> RestChars]} : k \in 0..(MaxLineLen - 1)}

\* parse_incremental: the value of field when its loop ends; the loop
\* counts a field at every comma and one more at the end of the line
RECURSIVE IncrementalFieldCount(_)
IncrementalFieldCount(l) ==
    IF l = <<>> THEN 1
    ELSE (IF Head(l) = "," THEN 1 ELSE 0) + IncrementalFieldCount(Tail(l))

\* parse_snapshot: fields.size() after its loop; a comma inside quotes
\* does not end a field
RECURSIVE SnapshotFieldCount(_, _)
SnapshotFieldCount(l, in_quotes) ==
    IF l = <<>> THEN 1
    ELSE LET q == IF Head(l) = "\"" THEN ~in_quotes ELSE in_quotes
         IN  (IF Head(l) = "," /\ ~q THEN 1 ELSE 0) + SnapshotFieldCount(Tail(l), q)

MinSnapshotFields == 7   \* if (fields.size() < 7) return
LastIncrementalField == 8    \* case 8: the size, the last field parse_incremental reads

\* parse_snapshot, parse_incremental, parse_line: out.size() after the call,
\* n being out.size() before it
parse_snapshot(l, n) ==
    IF SnapshotFieldCount(l, FALSE) < MinSnapshotFields THEN n ELSE n + 1

parse_incremental(l, n) == n + 1

parse_line(l, n) ==
    IF l = <<>> THEN n
    ELSE IF Head(l) = "s" THEN parse_snapshot(l, n)
    ELSE IF Head(l) = "i" THEN parse_incremental(l, n)
    ELSE n

\* parse_snapshot: the fields its loop collects; a comma outside quotes ends
\* the field cur, and the end of the line ends the last one
RECURSIVE SplitFields(_, _, _, _)
SplitFields(l, cur, in_quotes, fields) ==
    IF l = <<>> THEN Append(fields, cur)
    ELSE LET q == IF Head(l) = "\"" THEN ~in_quotes ELSE in_quotes
         IN  IF Head(l) = "," /\ ~q
             THEN SplitFields(Tail(l), <<>>, q, Append(fields, cur))
             ELSE SplitFields(Tail(l), Append(cur, Head(l)), q, fields)

strip_quotes(sv) ==
    IF Len(sv) >= 2 /\ sv[1] = "\"" /\ sv[Len(sv)] = "\""
    THEN SubSeq(sv, 2, Len(sv) - 1)
    ELSE sv

DigitValue(c) ==
    IF c = "1" THEN 1 ELSE IF c = "2" THEN 2 ELSE 0

\* *p - '0' is meant for digits; the lines of this model put nothing else
\* in a field read by parse_u64
RECURSIVE parse_u64_from(_, _)
parse_u64_from(result, t) ==
    IF t = <<>> THEN result
    ELSE parse_u64_from((result * 10 + DigitValue(Head(t))) % Modulus, Tail(t))

parse_u64(t) == parse_u64_from(0, t)

\* strtod on a run of decimal digits: the value of the longest prefix that
\* is a number, 0.0 when there is none
RECURSIVE strtod(_, _)
strtod(acc, t) ==
    IF t = <<>> \/ Head(t) \notin {"0", "1", "2"} THEN acc
    ELSE strtod(acc * 10 + DigitValue(Head(t)), Tail(t))

\* no number of this model is longer than the 63 characters of buf
parse_double(t) == strtod(0, t)

\* Price::from_f64 of a whole number: static_cast<uint64_t>(p * 100.0 + 0.5)
from_f64(v) == v * 100

\* while (p < end && *p is not one of stops) ++p, from position p of sv
\* (positions count from 1, so p < end reads p <= Len(sv))
RECURSIVE ScanTo(_, _, _)
ScanTo(sv, p, stops) ==
    IF p <= Len(sv) /\ sv[p] \notin stops THEN ScanTo(sv, p + 1, stops) ELSE p

\* while (p < end && (*p == ' ' || *p == '\t')) ++p
RECURSIVE SkipBlanks(_, _)
SkipBlanks(sv, p) ==
    IF p <= Len(sv) /\ sv[p] \in {" ", "\t"} THEN SkipBlanks(sv, p + 1) ELSE p

\* the text of sv from position a up to, not including, position b
Text(sv, a, b) == SubSeq(sv, a, b - 1)

\* parse_levels_json: the loop while (p < end), entered at position p with
\* the levels pushed so far
RECURSIVE ParseLevelsLoop(_, _, _)
ParseLevelsLoop(sv, p, levels) ==
    IF p > Len(sv) THEN levels
    ELSE LET open == ScanTo(sv, p, {"["}) + 1      \* find '[', then skip it
         IN  IF open > Len(sv) THEN levels          \* if (p >= end) break
             ELSE IF sv[open] = "[" THEN ParseLevelsLoop(sv, open, levels)
             ELSE LET price_start == SkipBlanks(sv, open)
                      price_end   == ScanTo(sv, price_start, {",", "]"})
                      price       == parse_double(Text(sv, price_start, price_end))
                      after_comma == IF price_end <= Len(sv) /\ sv[price_end] = ","
                                     THEN price_end + 1 ELSE price_end
                      size_start  == SkipBlanks(sv, after_comma)
                      size_end    == ScanTo(sv, size_start, {"]"})
                      size        == parse_double(Text(sv, size_start, size_end))
                      next        == IF size_end <= Len(sv) THEN size_end + 1 ELSE size_end
                  IN  ParseLevelsLoop(sv, next,
                                      Append(levels, Level(from_f64(price), size)))

parse_levels_json(sv) == ParseLevelsLoop(sv, 1, <<>>)

\* parse_snapshot: the Update it pushes for a line of at least
\* MinSnapshotFields fields (fields[3] is the fourth field); Update::side
\* is left uninitialized, so it is whatever sd happens to be there
parse_snapshot_update(l, sd) ==
    LET fields == SplitFields(l, <<>>, FALSE, <<>>)
    IN  [type |-> "Snapshot", timestamp |-> parse_u64(fields[4]), side |-> sd,
         level |-> Level(0, 0),
         bids |-> parse_levels_json(strip_quotes(fields[6])),
         asks |-> parse_levels_json(strip_quotes(fields[7]))]

NoLines == line = <<>> /\ n_lines = 0 /\ lines_ok = 0 /\ written = <<<<>>, <<>>>>

(***************************************************************************)
(* Initial states.                                                         *)
(***************************************************************************)
\* producer, consumer: calls made; only_try_push: no call but try_push was made;
\* blocking_pop: the consumer's current call is pop(closed); overwritten: an
\* element was constructed over a live one
NoCalls ==
    [producer |-> 0, consumer |-> 0, only_try_push |-> TRUE, blocking_pop |-> FALSE,
     overwritten |-> FALSE]

InitEngine ==
    /\ book = EmptyBook
    /\ update = NoUpdate
    /\ send_ns = 0
    /\ notif = NoNotification
    /\ notif1 = NoNotification
    /\ prev = EmptyBook

InitRing(caps) ==
    /\ cap \in caps
    /\ head_ = 0
    /\ tail_ = 0
    /\ slots = FreshSlots(cap)
    /\ closed = FALSE

\* the producer thread at p and the consumer thread at c
InitThreadsAt(p, c) ==
    /\ p_pc = p
    /\ p_pos = 0
    /\ p_item = NoNotification
    /\ p_ret = FALSE
    /\ c_pc = c
    /\ c_pos = 0
    /\ c_item = NoNotification
    /\ c_ret = NoneItem
    /\ stats = FreshStats
    /\ clock = 0
    /\ pushed = <<>>
    /\ popped = <<>>
    /\ calls = NoCalls

InitThreads == InitThreadsAt("idle", "idle")

(***************************************************************************)
(* The producer's steps inside try_push and push.                          *)
(***************************************************************************)
\* try_push: pos = head_; the acquire load of slot.seq; "return false" when full
\* try_push storing head_ before it tests the slot
TryPushLoadStoresFirst(item) ==
    /\ p_pos' = head_
    /\ p_item' = item
    /\ head_' = head_ + 1
    /\ IF SlotFree(slots[SlotOf(head_)].seq, head_)
       THEN p_pc' = "push_construct" /\ p_ret' = p_ret
       ELSE p_pc' = "idle" /\ p_ret' = FALSE

TryPushLoad(item) ==
    /\ p_pos' = head_
    /\ p_item' = item
    /\ head_' = head_
    /\ IF SlotFree(slots[SlotOf(head_)].seq, head_)
       THEN p_pc' = "push_store_head" /\ p_ret' = p_ret
       ELSE p_pc' = "idle" /\ p_ret' = FALSE

\* push: pos = head_, before the spin loop
PushEnter(item) ==
    /\ p_pos' = head_
    /\ p_item' = item
    /\ p_pc' = "push_spin"
    /\ p_ret' = p_ret

\* push: one turn of the spin loop
PushSpin ==
    /\ p_pc = "push_spin"
    /\ p_pc' = IF SlotFree(slots[SlotOf(p_pos)].seq, p_pos) THEN "push_store_head" ELSE "push_spin"
    /\ UNCHANGED <<p_pos, p_item, p_ret>>
    /\ UNCHANGED <<engineVars, driverVars, ringVars, consumerVars, stats, clock, histVars>>

\* head_.store(pos + 1)
PushStoreHead ==
    /\ p_pc = "push_store_head"
    /\ head_' = p_pos + 1
    /\ p_pc' = "push_construct"
    /\ UNCHANGED <<p_pos, p_item, p_ret, cap, tail_, slots, closed>>
    /\ UNCHANGED <<engineVars, driverVars, consumerVars, stats, clock, histVars>>

\* new (slot.storage) T(item): the copy begins ...
PushConstruct ==
    /\ p_pc = "push_construct"
    /\ slots' = [slots EXCEPT ![SlotOf(p_pos)].st = "torn", ![SlotOf(p_pos)].item = TornItem]
    /\ calls' = [calls EXCEPT !.overwritten = @ \/ slots[SlotOf(p_pos)].st = "live"]
    /\ p_pc' = "push_constructed"
    /\ UNCHANGED <<p_pos, p_item, p_ret, cap, head_, tail_, closed, pushed, popped>>
    /\ UNCHANGED <<engineVars, driverVars, consumerVars, stats, clock>>

\* ... and completes
PushConstructed ==
    /\ p_pc = "push_constructed"
    /\ slots' = [slots EXCEPT ![SlotOf(p_pos)].st = "live", ![SlotOf(p_pos)].item = p_item]
    /\ p_pc' = "push_publish"
    /\ UNCHANGED <<p_pos, p_item, p_ret, cap, head_, tail_, closed>>
    /\ UNCHANGED <<engineVars, driverVars, consumerVars, stats, clock, histVars>>

\* slot.seq.store(pos + 1, release), and the return; the locals of the driver's
\* loop iteration that made the call end with it
PushPublish ==
    /\ p_pc = "push_publish"
    /\ slots' = [slots EXCEPT ![SlotOf(p_pos)].seq = p_pos + 1]
    /\ pushed' = Append(pushed, p_item)
    /\ p_ret' = TRUE
    /\ p_pc' = "idle"
    /\ update' = NoUpdate /\ send_ns' = 0 /\ notif' = NoNotification /\ prev' = EmptyBook
    /\ UNCHANGED <<book, notif1, p_pos, p_item, cap, head_, tail_, closed, popped, calls>>
    /\ UNCHANGED <<driverVars, consumerVars, stats, clock>>

ProducerSteps ==
    PushSpin \/ PushStoreHead \/ PushConstruct \/ PushConstructed \/ PushPublish

(***************************************************************************)
(* The consumer's steps inside try_pop and pop.                            *)
(***************************************************************************)
\* try_pop: pos = tail_; the acquire load of slot.seq; "return nullopt" when empty
TryPopLoad ==
    /\ c_pos' = tail_
    /\ IF SlotReady(slots[SlotOf(tail_)].seq, tail_)
       THEN c_pc' = "pop_store_tail" /\ c_ret' = c_ret
       ELSE c_pc' = "pop_returned" /\ c_ret' = NoneItem
    /\ c_item' = c_item

\* pop: pos = tail_, before the loop
PopEnter ==
    /\ c_pos' = tail_
    /\ c_pc' = "pop_spin"
    /\ UNCHANGED <<c_item, c_ret>>

\* pop: the first load of slot.seq in a turn of the loop
PopSpin ==
    /\ c_pc = "pop_spin"
    /\ c_pc' = IF SlotReady(slots[SlotOf(c_pos)].seq, c_pos) THEN "pop_store_tail" ELSE "pop_closed"
    /\ UNCHANGED <<c_pos, c_item, c_ret>>
    /\ UNCHANGED <<engineVars, driverVars, ringVars, producerVars, stats, clock, histVars>>

\* pop: closed.load(acquire)
PopClosed ==
    /\ c_pc = "pop_closed"
    /\ c_pc' = IF closed THEN "pop_recheck" ELSE "pop_spin"
    /\ UNCHANGED <<c_pos, c_item, c_ret>>
    /\ UNCHANGED <<engineVars, driverVars, ringVars, producerVars, stats, clock, histVars>>

\* pop: the second load of slot.seq; "return nullopt" when still not ready
PopRecheck ==
    /\ c_pc = "pop_recheck"
    /\ IF Recheck(slots[SlotOf(c_pos)].seq, c_pos)
       THEN c_pc' = "pop_store_tail" /\ c_ret' = c_ret
       ELSE c_pc' = "pop_returned" /\ c_ret' = NoneItem
    /\ UNCHANGED <<c_pos, c_item>>
    /\ UNCHANGED <<engineVars, driverVars, ringVars, producerVars, stats, clock, histVars>>

\* tail_.store(pos + 1)
PopStoreTail ==
    /\ c_pc = "pop_store_tail"
    /\ tail_' = c_pos + 1
    /\ c_pc' = "pop_move"
    /\ UNCHANGED <<c_pos, c_item, c_ret, cap, head_, slots, closed>>
    /\ UNCHANGED <<engineVars, driverVars, producerVars, stats, clock, histVars>>

\* T item = std::move(*slot.ptr())
PopMove ==
    /\ c_pc = "pop_move"
    /\ c_item' = slots[SlotOf(c_pos)].item
    /\ c_pc' = "pop_destroy"
    /\ UNCHANGED <<c_pos, c_ret>>
    /\ UNCHANGED <<engineVars, driverVars, ringVars, producerVars, stats, clock, histVars>>

\* slot.ptr()->~T()
PopDestroy ==
    /\ c_pc = "pop_destroy"
    /\ slots' = [slots EXCEPT ![SlotOf(c_pos)].st = "dead"]
    /\ c_pc' = "pop_release"
    /\ UNCHANGED <<c_pos, c_item, c_ret, cap, head_, tail_, closed>>
    /\ UNCHANGED <<engineVars, driverVars, producerVars, stats, clock, histVars>>

\* slot.seq.store(pos + Capacity, release); return item
PopRelease ==
    /\ c_pc = "pop_release"
    /\ slots' = [slots EXCEPT ![SlotOf(c_pos)].seq = ReleasedSeq(c_pos)]
    /\ c_ret' = SomeItem(c_item)
    /\ popped' = Append(popped, c_item)
    /\ c_pc' = "pop_returned"
    /\ UNCHANGED <<c_pos, c_item, cap, head_, tail_, closed, pushed, calls>>
    /\ UNCHANGED <<engineVars, driverVars, producerVars, stats, clock>>

ConsumerSteps ==
    PopSpin \/ PopClosed \/ PopRecheck \/ PopStoreTail \/ PopMove \/ PopDestroy \/ PopRelease

(***************************************************************************)
(* The engine alone: any sequence of applies on a fresh Orderbook.  The    *)
(* caller looks at the book and at the notification after each call.       *)
(***************************************************************************)
InitBook ==
    /\ InitEngine
    /\ n_updates = 0 /\ d_i = 0
    /\ NoLines
    /\ InitRing({1})
    /\ InitThreads

Applied(u, s) ==
    /\ calls.producer < MaxApplies
    /\ book' = apply(book, u, s).book
    /\ notif' = apply(book, u, s).notif
    /\ prev' = book
    /\ update' = u
    /\ send_ns' = s
    /\ notif1' = NoNotification
    /\ calls' = [calls EXCEPT !.producer = @ + 1]
    /\ p_pc' = "applied"
    /\ UNCHANGED <<p_pos, p_item, p_ret, pushed, popped>>
    /\ UNCHANGED <<driverVars, ringVars, consumerVars, stats, clock>>

ApplySnapshotUpdate ==
    /\ p_pc = "idle"
    /\ \E u \in Snapshots, s \in SendTimes : Applied(u, s)

ApplyIncrementalUpdate ==
    /\ p_pc = "idle"
    /\ \E u \in Incrementals, s \in SendTimes : Applied(u, s)

\* the caller applies the snapshot it has just applied once more
ApplySnapshotAgain ==
    /\ p_pc = "applied"
    /\ update.type = "Snapshot"
    /\ calls.producer < MaxApplies
    /\ \E s \in LaterSendTimes :
          /\ book' = apply(book, update, s).book
          /\ notif' = apply(book, update, s).notif
          /\ send_ns' = s
    /\ notif1' = notif
    /\ prev' = book
    /\ calls' = [calls EXCEPT !.producer = @ + 1]
    /\ p_pc' = "applied_again"
    /\ UNCHANGED <<update, p_pos, p_item, p_ret, pushed, popped>>
    /\ UNCHANGED <<driverVars, ringVars, consumerVars, stats, clock>>

\* the caller is done with the notification
NextCall ==
    /\ p_pc \in {"applied", "applied_again"}
    /\ p_pc' = "idle"
    /\ update' = NoUpdate /\ send_ns' = 0 /\ notif' = NoNotification /\ prev' = EmptyBook
    /\ notif1' = NoNotification
    /\ UNCHANGED <<book, p_pos, p_item, p_ret>>
    /\ UNCHANGED <<driverVars, ringVars, consumerVars, stats, clock, histVars>>

NextBook == ApplySnapshotUpdate \/ ApplyIncrementalUpdate \/ ApplySnapshotAgain \/ NextCall

SpecBook == InitBook /\ [][NextBook]_vars

(***************************************************************************)
(* The ring alone: one producer thread calling try_push and push, then     *)
(* storing closed = true, and one consumer thread calling try_pop and      *)
(* pop(closed), under every interleaving of their steps.  The k-th call    *)
(* of the producer carries an item with seq = k.                           *)
(***************************************************************************)
MaxOps == 5              \* calls the producer makes; the consumer makes one more

Item(k) == [NoNotification EXCEPT !.seq = k]

RingTryPush ==
    /\ p_pc = "idle"
    /\ calls.producer < MaxOps
    /\ TryPushLoad(Item(calls.producer + 1))
    /\ calls' = [calls EXCEPT !.producer = @ + 1]
    /\ UNCHANGED <<cap, tail_, slots, closed>>
    /\ UNCHANGED <<engineVars, driverVars, consumerVars, stats, clock, pushed, popped>>

RingPush ==
    /\ p_pc = "idle"
    /\ calls.producer < MaxOps
    /\ PushEnter(Item(calls.producer + 1))
    /\ calls' = [calls EXCEPT !.producer = @ + 1, !.only_try_push = FALSE]
    /\ UNCHANGED <<engineVars, driverVars, ringVars, consumerVars, stats, clock, pushed, popped>>

\* closed.store(true, release), after the last push
RingClose ==
    /\ p_pc = "idle"
    /\ closed' = TRUE
    /\ p_pc' = "done"
    /\ UNCHANGED <<p_pos, p_item, p_ret, cap, head_, tail_, slots>>
    /\ UNCHANGED <<engineVars, driverVars, consumerVars, stats, clock, histVars>>

RingTryPop ==
    /\ c_pc = "idle"
    /\ calls.consumer < MaxOps + 1
    /\ TryPopLoad
    /\ calls' = [calls EXCEPT !.consumer = @ + 1, !.only_try_push = FALSE]
    /\ UNCHANGED <<engineVars, driverVars, ringVars, producerVars, stats, clock, pushed, popped>>

RingPop ==
    /\ c_pc = "idle"
    /\ calls.consumer < MaxOps + 1
    /\ PopEnter
    /\ calls' = [calls EXCEPT !.consumer = @ + 1, !.only_try_push = FALSE, !.blocking_pop = TRUE]
    /\ UNCHANGED <<engineVars, driverVars, ringVars, producerVars, stats, clock, pushed, popped>>

\* the caller has looked at what pop or try_pop returned
RingPopReturned ==
    /\ c_pc = "pop_returned"
    /\ c_pc' = "idle"
    /\ calls' = [calls EXCEPT !.blocking_pop = FALSE]
    /\ UNCHANGED <<c_pos, c_item, c_ret, pushed, popped>>
    /\ UNCHANGED <<engineVars, driverVars, ringVars, producerVars, stats, clock>>

InitRingAlone(caps) ==
    /\ InitEngine
    /\ n_updates = 0 /\ d_i = 0
    /\ NoLines
    /\ InitRing(caps)
    /\ InitThreads

NextRing ==
    \/ RingTryPush \/ RingPush \/ RingClose \/ ProducerSteps
    \/ RingTryPop \/ RingPop \/ RingPopReturned \/ ConsumerSteps

\* every Capacity the static_assert accepts
SpecRing == InitRingAlone(Capacities) /\ [][NextRing]_vars

\* the capacities of two slots and more
SpecRing2 == InitRingAlone({c \in Capacities : c >= 2}) /\ [][NextRing]_vars

\* a producer that breaks the close protocol: push after closed.store(true)
RingLatePush ==
    /\ p_pc = "done"
    /\ calls.producer < MaxOps
    /\ PushEnter(Item(calls.producer + 1))
    /\ calls' = [calls EXCEPT !.producer = @ + 1, !.only_try_push = FALSE]
    /\ UNCHANGED <<engineVars, driverVars, ringVars, consumerVars, stats, clock, pushed, popped>>

NextRingLate == NextRing \/ RingLatePush

\* the ring of two slots and more with such a producer
SpecRingLate == InitRingAlone({c \in Capacities : c >= 2}) /\ [][NextRingLate]_vars

(***************************************************************************)
(* The program (main.cpp): the driver applies each update and pushes the   *)
(* notification, then stores closed = true and joins the strategy thread,  *)
(* which runs run_strategy (strategy.h).                                   *)
(***************************************************************************)
MaxUpdates == 3          \* updates.size() is at most this

\* the updates the ingest adapter may have delivered
DriverUpdates ==
    {u \in Incrementals : u.side = "Bid" /\ u.level.price = 10000 /\ u.level.qty \in {0, 2}}
    \cup {u \in Snapshots : u.bids = <<Level(10000, 3)>> /\ u.asks = <<Level(10050, 2)>>}

InitMain(caps) ==
    /\ InitEngine
    /\ n_updates \in 1..MaxUpdates
    /\ d_i = 0
    /\ NoLines
    /\ InitRing(caps)
    /\ InitThreads

\* one iteration of the loop of main, up to the call of push: now = Clock::now_ns(),
\* notif = book.apply(update, now), queue_ptr->push(notif)
DriverApply ==
    /\ p_pc = "idle"
    /\ d_i < n_updates
    /\ \E u \in DriverUpdates, now \in Now(clock) :
          /\ clock' = now
          /\ book' = apply(book, u, now).book
          /\ notif' = apply(book, u, now).notif
          /\ prev' = book
          /\ update' = u
          /\ send_ns' = now
          /\ PushEnter(apply(book, u, now).notif)
    /\ notif1' = notif1
    /\ d_i' = d_i + 1
    /\ calls' = [calls EXCEPT !.producer = @ + 1, !.only_try_push = FALSE]
    /\ UNCHANGED <<n_updates, line, n_lines, lines_ok, written, ringVars, consumerVars, stats, pushed, popped>>

\* closed.store(true, release) after the loop
DriverClose ==
    /\ p_pc = "idle"
    /\ d_i = n_updates
    /\ closed' = TRUE
    /\ p_pc' = "join"
    /\ UNCHANGED <<p_pos, p_item, p_ret, cap, head_, tail_, slots>>
    /\ UNCHANGED <<engineVars, driverVars, consumerVars, stats, clock, histVars>>

\* strategy_thread.join() returns once run_strategy has returned
DriverJoin ==
    /\ p_pc = "join"
    /\ c_pc = "done"
    /\ p_pc' = "done"
    /\ UNCHANGED <<p_pos, p_item, p_ret>>
    /\ UNCHANGED <<engineVars, driverVars, ringVars, consumerVars, stats, clock, histVars>>

\* run_strategy: auto maybe = queue.pop(closed)
StrategyPop ==
    /\ c_pc = "idle"
    /\ PopEnter
    /\ calls' = [calls EXCEPT !.consumer = @ + 1, !.only_try_push = FALSE, !.blocking_pop = TRUE]
    /\ UNCHANGED <<engineVars, driverVars, ringVars, producerVars, stats, clock, pushed, popped>>

\* run_strategy: recv_ns = Clock::now_ns(); stats.record(recv_ns - notif.engine_send_ns)
StrategyRecord ==
    /\ c_pc = "pop_returned"
    /\ c_ret.has
    /\ \E recv_ns \in Now(clock) :
          /\ clock' = recv_ns
          /\ stats' = record(stats, Sub64(recv_ns, c_ret.val.engine_send_ns))
    /\ c_pc' = "idle"
    /\ UNCHANGED <<c_pos, c_item, c_ret>>
    /\ UNCHANGED <<engineVars, driverVars, ringVars, producerVars, histVars>>

\* run_strategy: if (!maybe.has_value()) break; return stats
StrategyReturn ==
    /\ c_pc = "pop_returned"
    /\ ~c_ret.has
    /\ c_pc' = "done"
    /\ UNCHANGED <<c_pos, c_item, c_ret>>
    /\ UNCHANGED <<engineVars, driverVars, ringVars, producerVars, stats, clock, histVars>>

DriverSteps == DriverApply \/ ProducerSteps \/ DriverClose \/ DriverJoin

StrategySteps == StrategyPop \/ ConsumerSteps \/ StrategyRecord \/ StrategyReturn

Next == DriverSteps \/ StrategySteps

\* the program with every Capacity the static_assert accepts
Spec == InitMain(Capacities) /\ [][Next]_vars

\* the program with a ring of two slots or more
Spec2 == InitMain({c \in Capacities : c >= 2}) /\ [][Next]_vars

\* both threads keep being scheduled
FairSpec == Spec /\ WF_vars(DriverSteps) /\ WF_vars(StrategySteps)

FairSpec2 == Spec2 /\ WF_vars(DriverSteps) /\ WF_vars(StrategySteps)

(***************************************************************************)
(* The program from the start of main: phase 1 parses the file, an empty   *)
(* result ends the program with code 1, and otherwise phases 2 and 3       *)
(* create the ring and start the strategy thread before the engine loop.   *)
(***************************************************************************)
\* the ring before make_unique has created it
NoSlots == <<>>

InitStart(caps) ==
    /\ InitEngine
    /\ n_updates = 0
    /\ d_i = 0
    /\ NoLines
    /\ cap \in caps
    /\ head_ = 0
    /\ tail_ = 0
    /\ slots = NoSlots
    /\ closed = FALSE
    /\ InitThreadsAt("start", "unstarted")

\* parse_file cannot open or map the file: return {}
DriverParseFails ==
    /\ p_pc = "start"
    /\ n_updates' = 0
    /\ p_pc' = "parsed"
    /\ UNCHANGED <<d_i, line, n_lines, lines_ok, written, p_pos, p_item, p_ret>>
    /\ UNCHANGED <<engineVars, ringVars, consumerVars, stats, clock, histVars>>

\* parse_file returns the updates of the file, possibly none
DriverParse ==
    /\ p_pc = "start"
    /\ n_updates' \in 0..MaxUpdates
    /\ p_pc' = "parsed"
    /\ UNCHANGED <<d_i, line, n_lines, lines_ok, written, p_pos, p_item, p_ret>>
    /\ UNCHANGED <<engineVars, ringVars, consumerVars, stats, clock, histVars>>

\* the test updates.empty()
UpdatesEmptyNever(n) == FALSE

UpdatesEmpty(n) == n = 0

\* if (updates.empty()) { ...; return 1; }
DriverExitEmpty ==
    /\ p_pc = "parsed"
    /\ UpdatesEmpty(n_updates)
    /\ p_pc' = "exit_1"
    /\ UNCHANGED <<p_pos, p_item, p_ret>>
    /\ UNCHANGED <<engineVars, driverVars, ringVars, consumerVars, stats, clock, histVars>>

\* phases 2 and 3: the queue, the closed flag, the strategy thread
DriverSetup ==
    /\ p_pc = "parsed"
    /\ ~UpdatesEmpty(n_updates)
    /\ slots' = FreshSlots(cap)
    /\ p_pc' = "idle"
    /\ c_pc' = "idle"
    /\ UNCHANGED <<p_pos, p_item, p_ret, c_pos, c_item, c_ret, cap, head_, tail_, closed>>
    /\ UNCHANGED <<engineVars, driverVars, stats, clock, histVars>>

\* what main has returned: 1 at the early return, 0 at its end, -1 while it runs
ExitCode == IF p_pc = "exit_1" THEN 1 ELSE IF p_pc = "done" THEN 0 ELSE -1

MainSteps == DriverParseFails \/ DriverParse \/ DriverExitEmpty \/ DriverSetup \/ DriverSteps

NextMain == MainSteps \/ StrategySteps

\* main as built: a ring of two slots or more, both threads scheduled
FairSpecMain ==
    /\ InitStart({c \in Capacities : c >= 2})
    /\ [][NextMain]_vars
    /\ WF_vars(MainSteps)
    /\ WF_vars(StrategySteps)

(***************************************************************************)
(* The ingest adapter alone (CsvReader::parse_file): after the header, the *)
(* loop takes the file's lines one by one; an empty line is passed over,   *)
(* any other is handed to parse_line.  n_updates is updates.size().        *)
(***************************************************************************)
\* a line with the fields its parser reads: 9 for 'i', 7 (quote-aware) for 's'
WellFormed(l) ==
    /\ l # <<>>
    /\ \/ Head(l) = "i" /\ IncrementalFieldCount(l) > LastIncrementalField
       \/ Head(l) = "s" /\ SnapshotFieldCount(l, FALSE) >= MinSnapshotFields

\* one turn of the loop of parse_file on line l
ReadLine(l) ==
    /\ line' = l
    /\ n_lines' = n_lines + 1
    /\ n_updates' = parse_line(l, n_updates)
    /\ lines_ok' = lines_ok + (IF WellFormed(l) THEN 1 ELSE 0)
    /\ p_pc' = "parsed_line"
    /\ UNCHANGED <<d_i, written, p_pos, p_item, p_ret>>
    /\ UNCHANGED <<engineVars, ringVars, consumerVars, stats, clock, histVars>>

\* if (content_end <= line_start) continue
\* while (pos < end)
MoreLines == p_pc = "idle" /\ n_lines < MaxLines

ReadEmptyLine ==
    /\ MoreLines
    /\ ReadLine(<<>>)

ReadSnapshotLine ==
    /\ MoreLines
    /\ \E l \in Lines({"s"}) : ReadLine(l)

ReadIncrementalLine ==
    /\ MoreLines
    /\ \E l \in Lines({"i"}) : ReadLine(l)

ReadOtherLine ==
    /\ MoreLines
    /\ \E l \in Lines(FirstChars \ {"s", "i"}) : ReadLine(l)

\* the loop goes on to the next line
NextLine ==
    /\ p_pc = "parsed_line"
    /\ p_pc' = "idle"
    /\ line' = <<>>
    /\ UNCHANGED <<n_updates, d_i, n_lines, lines_ok, written, p_pos, p_item, p_ret>>
    /\ UNCHANGED <<engineVars, ringVars, consumerVars, stats, clock, histVars>>

NextParser ==
    ReadEmptyLine \/ ReadSnapshotLine \/ ReadIncrementalLine \/ ReadOtherLine \/ NextLine

SpecParser == InitBook /\ [][NextParser]_vars

(***************************************************************************)
(* Snapshot lines written from lists of [price, qty] pairs: s,,,1,, then   *)
(* the bids array and the asks array, each in quotes, with or without a    *)
(* blank after the commas inside the arrays.                               *)
(***************************************************************************)
MaxPairs == 2            \* pairs in one array

WrittenNumbers == {1, 12}

DigitChar(d) == IF d = 0 THEN "0" ELSE IF d = 1 THEN "1" ELSE "2"

\* the decimal digits of n
RECURSIVE NumberText(_)
NumberText(n) ==
    IF n < 10 THEN <<DigitChar(n)>>
    ELSE NumberText(n \div 10) \o <<DigitChar(n % 10)>>

PairLists ==
    UNION {[1..k -> WrittenNumbers \X WrittenNumbers] : k \in 0..MaxPairs}

Separator(blank) == IF blank THEN <<",", " ">> ELSE <<",">>

PairText(pr, blank) ==
    <<"[">> \o NumberText(pr[1]) \o Separator(blank) \o NumberText(pr[2]) \o <<"]">>

RECURSIVE PairsText(_, _)
PairsText(ps, blank) ==
    IF ps = <<>> THEN <<>>
    ELSE IF Len(ps) = 1 THEN PairText(ps[1], blank)
    ELSE PairText(ps[1], blank) \o Separator(blank) \o PairsText(Tail(ps), blank)

ArrayField(ps, blank) == <<"\"", "[">> \o PairsText(ps, blank) \o <<"]", "\"">>

SnapshotLine(pb, pa, blank) ==
    <<"s", ",", ",", ",", "1", ",", ",">>
        \o ArrayField(pb, blank) \o <<",">> \o ArrayField(pa, blank)

\* one turn of the loop of parse_file on a snapshot line
ReadWrittenSnapshot ==
    /\ MoreLines
    /\ \E pb \in PairLists, pa \in PairLists, blank \in BOOLEAN, sd \in Sides :
          LET l == SnapshotLine(pb, pa, blank)
          IN  /\ line' = l
              /\ written' = <<pb, pa>>
              /\ n_updates' = parse_line(l, n_updates)
              /\ update' = parse_snapshot_update(l, sd)
    /\ n_lines' = n_lines + 1
    /\ lines_ok' = lines_ok + 1
    /\ p_pc' = "parsed_line"
    /\ UNCHANGED <<d_i, p_pos, p_item, p_ret>>
    /\ UNCHANGED <<book, send_ns, notif, notif1, prev>>
    /\ UNCHANGED <<ringVars, consumerVars, stats, clock, histVars>>

\* the loop goes on to the next line; the Update was moved into out
NextWrittenLine ==
    /\ p_pc = "parsed_line"
    /\ p_pc' = "idle"
    /\ line' = <<>>
    /\ written' = <<<<>>, <<>>>>
    /\ update' = NoUpdate
    /\ UNCHANGED <<n_updates, d_i, n_lines, lines_ok, p_pos, p_item, p_ret>>
    /\ UNCHANGED <<book, send_ns, notif, notif1, prev>>
    /\ UNCHANGED <<ringVars, consumerVars, stats, clock, histVars>>

NextLevels == ReadWrittenSnapshot \/ NextWrittenLine

SpecLevels == InitBook /\ [][NextLevels]_vars

(***************************************************************************)
(* StrategyStats on its own: record is called with any uint64_t latency.   *)
(***************************************************************************)
MaxSamples == 2

Latencies == 0..UINT64_MAX

RecordSample ==
    /\ Len(stats.latencies) < MaxSamples
    /\ \E lat \in Latencies : stats' = record(stats, lat)
    /\ UNCHANGED <<engineVars, driverVars, ringVars, producerVars, consumerVars>>
    /\ UNCHANGED <<clock, histVars>>

NextStats == RecordSample

SpecStats == InitBook /\ [][NextStats]_vars


(***************************************************************************)
(* Claims about the engine (checked under SpecBook).                       *)
(***************************************************************************)
AfterApply == p_pc \in {"applied", "applied_again"}

AfterSnapshot == AfterApply /\ update.type = "Snapshot"

AfterIncremental == AfterApply /\ update.type = "Incremental"

CacheMatches(cache, m, best) ==
    /\ cache.has <=> DOMAIN m # {}
    /\ cache.has => best \in DOMAIN m /\ cache.price = best /\ cache.qty = m[best]

Highest(m) ==
    IF DOMAIN m = {} THEN 0 ELSE CHOOSE k \in DOMAIN m : \A j \in DOMAIN m : j <= k

Lowest(m) ==
    IF DOMAIN m = {} THEN 0 ELSE CHOOSE k \in DOMAIN m : \A j \in DOMAIN m : k <= j

\* C1: at every point the best bid is disengaged iff the bid map is empty, and
\* otherwise is the map's highest key with the quantity stored at it; the best
\* ask likewise with the lowest key of the ask map.
C1_CacheConsistency ==
    /\ CacheMatches(book.cached_best_bid_, book.bids_, Highest(book.bids_))
    /\ CacheMatches(book.cached_best_ask_, book.asks_, Lowest(book.asks_))

\* C1's case: an incremental deleted the best bid, another bid is left, and
\* the ask side is not empty
C1_Witness ==
    /\ AfterIncremental /\ update.side = "Bid" /\ is_zero(update.level.qty)
    /\ prev.cached_best_bid_.has /\ prev.cached_best_bid_.price = update.level.price
    /\ book.cached_best_bid_.has /\ book.cached_best_ask_.has

\* C2: the k-th call of apply on a fresh book returns seq = k, whatever the update
C2_SequenceMonotonicity ==
    /\ book.seq_ = calls.producer
    /\ AfterApply => notif.seq = calls.producer

\* C2's case: the third call, a snapshot
C2_Witness == AfterSnapshot /\ calls.producer = 3 /\ notif.seq = 3 /\ prev.seq_ = 2

\* C8: no entry of either map has a quantity for which is_zero holds
C8_NoZeroQuantity ==
    /\ \A p \in DOMAIN book.bids_ : ~is_zero(book.bids_[p])
    /\ \A p \in DOMAIN book.asks_ : ~is_zero(book.asks_[p])

\* C8's case: a snapshot listing a zero quantity and a non-zero one, on a
\* book that an incremental with a zero quantity had emptied
C8_Witness ==
    /\ AfterSnapshot
    /\ \E i \in 1..Len(update.bids) : is_zero(update.bids[i].qty)
    /\ \E i \in 1..Len(update.bids) : ~is_zero(update.bids[i].qty)
    /\ book.bids_ # EmptyMap
    /\ prev.seq_ = 2 /\ prev.bids_ = EmptyMap /\ prev.asks_ = EmptyMap

\* the indices of a level list that hold price p, and those with a non-zero quantity
Occurrences(ls, p) == {i \in 1..Len(ls) : ls[i].price = p}

NonZeroOccurrences(ls, p) == {i \in Occurrences(ls, p) : ~is_zero(ls[i].qty)}

Last(I) == CHOOSE i \in I : \A j \in I : j <= i

ListedNonZero(ls) == {p \in Prices : NonZeroOccurrences(ls, p) # {}}

\* C9: after a snapshot each map holds exactly the prices the snapshot lists
\* with a non-zero quantity, with a quantity listed for that price, and the
\* cached bests are those of these maps: nothing of the prior book is left.
C9_SnapshotReplacesBook ==
    AfterSnapshot =>
        /\ DOMAIN book.bids_ = ListedNonZero(update.bids)
        /\ DOMAIN book.asks_ = ListedNonZero(update.asks)
        /\ \A p \in DOMAIN book.bids_ :
              \E i \in NonZeroOccurrences(update.bids, p) : book.bids_[p] = update.bids[i].qty
        /\ \A p \in DOMAIN book.asks_ :
              \E i \in NonZeroOccurrences(update.asks, p) : book.asks_[p] = update.asks[i].qty
        /\ \A p \in DOMAIN prev.bids_ \ ListedNonZero(update.bids) : p \notin DOMAIN book.bids_
        /\ \A p \in DOMAIN prev.asks_ \ ListedNonZero(update.asks) : p \notin DOMAIN book.asks_
        /\ book.cached_best_bid_.has <=> ListedNonZero(update.bids) # {}
        /\ book.cached_best_ask_.has <=> ListedNonZero(update.asks) # {}

\* C9's case: the book held a bid and an ask the snapshot does not list, and
\* the snapshot lists another bid
C9_Witness ==
    /\ AfterSnapshot
    /\ DOMAIN prev.bids_ \ ListedNonZero(update.bids) # {}
    /\ DOMAIN prev.asks_ \ ListedNonZero(update.asks) # {}
    /\ ListedNonZero(update.bids) # {}

Duplicated(ls) == {p \in Prices : Cardinality(Occurrences(ls, p)) > 1}

\* the state of a side at price p that a given level of a snapshot determines
DeterminedBy(m, l) ==
    IF is_zero(l.qty) THEN l.price \notin DOMAIN m
    ELSE l.price \in DOMAIN m /\ m[l.price] = l.qty

\* C10 as stated: for a price a snapshot lists more than once on a side, the
\* side's state at that price is the one its last occurrence determines, also
\* when that occurrence carries a zero quantity.
C10_LastOccurrenceWins ==
    AfterSnapshot =>
        /\ \A p \in Duplicated(update.bids) :
              DeterminedBy(book.bids_, update.bids[Last(Occurrences(update.bids, p))])
        /\ \A p \in Duplicated(update.asks) :
              DeterminedBy(book.asks_, update.asks[Last(Occurrences(update.asks, p))])

LastNonZeroWins(m, ls, p) ==
    IF NonZeroOccurrences(ls, p) = {} THEN p \notin DOMAIN m
    ELSE p \in DOMAIN m /\ m[p] = ls[Last(NonZeroOccurrences(ls, p))].qty

\* C10 as amended: for a price a snapshot lists more than once on a side, the
\* side holds the quantity of the last occurrence with a non-zero quantity
\* (occurrences with a zero quantity are skipped and remove nothing), and
\* does not hold the price when every occurrence has a zero quantity.
C10_LastNonZeroOccurrenceWins ==
    AfterSnapshot =>
        /\ \A p \in Duplicated(update.bids) : LastNonZeroWins(book.bids_, update.bids, p)
        /\ \A p \in Duplicated(update.asks) : LastNonZeroWins(book.asks_, update.asks, p)

\* C10's case: a price listed twice, first with a non-zero quantity and then
\* with a zero one, and the side holds the first
C10_Witness ==
    /\ AfterSnapshot
    /\ Len(update.asks) = 2
    /\ update.asks[1].price = update.asks[2].price
    /\ ~is_zero(update.asks[1].qty) /\ is_zero(update.asks[2].qty)
    /\ update.asks[1].price \in DOMAIN book.asks_
    /\ book.asks_[update.asks[1].price] = update.asks[1].qty

\* the second of two calls of apply with one snapshot has returned
AfterSnapshotAgain == p_pc = "applied_again"

\* C11: when one snapshot is applied twice in a row, the second call leaves
\* both maps and both cached bests as the first left them, and the second
\* notification has the update_timestamp, best_bid and best_ask of the first
\* and a seq greater by exactly 1.
C11_SnapshotIdempotence ==
    AfterSnapshotAgain =>
        /\ book.bids_ = prev.bids_
        /\ book.asks_ = prev.asks_
        /\ book.cached_best_bid_ = prev.cached_best_bid_
        /\ book.cached_best_ask_ = prev.cached_best_ask_
        /\ notif.update_timestamp = notif1.update_timestamp
        /\ notif.best_bid = notif1.best_bid
        /\ notif.best_ask = notif1.best_ask
        /\ notif.seq = notif1.seq + 1

\* C11's case: a snapshot with a bid and an ask applied twice to a book that
\* had seen an update before, the second time with another send_ns
C11_Witness ==
    /\ AfterSnapshotAgain
    /\ notif1.seq = 2 /\ notif.seq = 3
    /\ notif.best_bid.has /\ notif.best_ask.has
    /\ notif.engine_send_ns # notif1.engine_send_ns

\* the map and the cached best of a side of a book
SideMap(b, side) == IF side = "Bid" THEN b.bids_ ELSE b.asks_

SideCache(b, side) == IF side = "Bid" THEN b.cached_best_bid_ ELSE b.cached_best_ask_

OtherSide(side) == IF side = "Bid" THEN "Ask" ELSE "Bid"

\* an incremental with a zero quantity at a price its side does not hold
DeleteOfAbsent ==
    /\ AfterIncremental
    /\ is_zero(update.level.qty)
    /\ update.level.price \notin DOMAIN SideMap(prev, update.side)

\* C12: an incremental with a zero quantity at a price that is not a key of
\* its side's map leaves both maps and both cached bests as they were and
\* increases seq by 1.
C12_DeleteAbsentNoOp ==
    DeleteOfAbsent =>
        /\ book.bids_ = prev.bids_
        /\ book.asks_ = prev.asks_
        /\ book.cached_best_bid_ = prev.cached_best_bid_
        /\ book.cached_best_ask_ = prev.cached_best_ask_
        /\ book.seq_ = prev.seq_ + 1

\* C12's case: the side holds another price, which is its cached best
C12_Witness ==
    /\ DeleteOfAbsent
    /\ update.side = "Ask"
    /\ prev.cached_best_ask_.has
    /\ book.seq_ = 3

\* an incremental that inserts or overwrites strictly behind the cached best
InsertBehindBest ==
    /\ AfterIncremental
    /\ ~is_zero(update.level.qty)
    /\ SideCache(prev, update.side).has
    /\ IF update.side = "Bid"
       THEN update.level.price < prev.cached_best_bid_.price
       ELSE update.level.price > prev.cached_best_ask_.price

\* an incremental that deletes a price other than the cached best
DeleteNotBest ==
    /\ AfterIncremental
    /\ is_zero(update.level.qty)
    /\ SideCache(prev, update.side).has
    /\ update.level.price # SideCache(prev, update.side).price

\* C18: an incremental insert or overwrite at a price strictly below the
\* cached best bid (strictly above the cached best ask), and an incremental
\* delete of a price other than the cached best, leave the side's cached best
\* (price and quantity) as it was, while the map is updated.
C18_MonotoneCacheUntouched ==
    /\ InsertBehindBest =>
          /\ SideCache(book, update.side) = SideCache(prev, update.side)
          /\ SideMap(book, update.side) =
                MapSet(SideMap(prev, update.side), update.level.price, update.level.qty)
    /\ DeleteNotBest =>
          /\ SideCache(book, update.side) = SideCache(prev, update.side)
          /\ SideMap(book, update.side) = MapErase(SideMap(prev, update.side), update.level.price)

\* C18's case: an ask inserted above the cached best ask, at a new price
C18_Witness ==
    /\ InsertBehindBest
    /\ update.side = "Ask"
    /\ update.level.price \notin DOMAIN prev.asks_
    /\ Cardinality(DOMAIN book.asks_) = 2
    /\ book.cached_best_ask_.price < update.level.price

\* C19: an incremental leaves the other side's map (and so its depth) and
\* cached best as they were, and is applied to its own side whatever the
\* other side holds: a bid at or above the best ask, an ask at or below the
\* best bid, are inserted like any other.
C19_SideIsolation ==
    AfterIncremental =>
        /\ SideMap(book, OtherSide(update.side)) = SideMap(prev, OtherSide(update.side))
        /\ SideCache(book, OtherSide(update.side)) = SideCache(prev, OtherSide(update.side))
        /\ SideMap(book, update.side) =
              IF is_zero(update.level.qty)
              THEN MapErase(SideMap(prev, update.side), update.level.price)
              ELSE MapSet(SideMap(prev, update.side), update.level.price, update.level.qty)

\* C19's case: an ask inserted below the best bid, so that the book is crossed
C19_Witness ==
    /\ AfterIncremental
    /\ update.side = "Ask" /\ ~is_zero(update.level.qty)
    /\ prev.cached_best_bid_.has
    /\ update.level.price < prev.cached_best_bid_.price
    /\ book.cached_best_ask_.price = update.level.price
    /\ book.bids_ = prev.bids_ /\ DOMAIN book.bids_ # {}

(***************************************************************************)
(* Claims about the ring (SpecRing) and the program (Spec, FairSpec).      *)
(***************************************************************************)
IsPrefix(a, b) == Len(a) <= Len(b) /\ \A i \in 1..Len(a) : a[i] = b[i]

\* C3: under every interleaving of one producer and one consumer the elements
\* the pops have returned are, in order, a prefix of the elements pushed:
\* none is lost, duplicated or reordered, also once positions wrap around.
C3_RingFIFO == IsPrefix(popped, pushed)

\* C4: on a fresh queue on which only try_push has been called, each of the
\* first Capacity calls returns true, the call after them returns false, and
\* no stored element is overwritten.
C4_RingFullness ==
    calls.only_try_push =>
        /\ ~calls.overwritten
        /\ (p_pc = "idle" /\ calls.producer \in 1..cap) => p_ret
        /\ (p_pc = "idle" /\ calls.producer = cap + 1) => ~p_ret

\* pop(closed) has just returned nullopt
PopReturnedClosed == c_pc = "pop_returned" /\ calls.blocking_pop /\ ~c_ret.has

\* pop(closed) has just returned an item
PopReturnedItem == c_pc = "pop_returned" /\ calls.blocking_pop /\ c_ret.has

\* C5: when the producer stores closed = true only after its pushes, each item
\* pop(closed) returns is the next of the items pushed, in push order, and
\* pop(closed) returns nullopt only once closed is set and every item pushed
\* has been popped.
C5_RingCloseSafety ==
    /\ PopReturnedItem =>
          /\ Len(popped) <= Len(pushed)
          /\ c_ret.val = pushed[Len(popped)]
    /\ PopReturnedClosed => closed /\ popped = pushed

\* run_strategy has returned
StrategyDone == c_pc = "done"

\* C6: the strategy loop pops the notifications with seq 1, 2, ... in that
\* order, and when it exits it has popped all K of them and recorded K samples.
C6_EndToEndDelivery ==
    /\ \A i \in 1..Len(popped) : popped[i].seq = i
    /\ stats.count = Len(popped) \/ c_pc = "pop_returned"
    /\ StrategyDone =>
          /\ Len(popped) = n_updates
          /\ stats.count = n_updates
          /\ Len(stats.latencies) = n_updates

\* C7: with both threads scheduled fairly the program reaches the point where
\* every push has returned, closed is set, run_strategy has returned with the
\* ring drained, and the join has completed.
C7_Termination ==
    <>(/\ p_pc = "done" /\ c_pc = "done" /\ closed
       /\ Len(pushed) = n_updates /\ popped = pushed)

\* the producer is inside push or try_push
InPush ==
    p_pc \in {"push_spin", "push_store_head", "push_construct", "push_constructed",
              "push_publish"}

\* C13: the notification apply(update, send_ns) returns carries update.timestamp,
\* send_ns as passed, the cached bests as they are once the update is applied
\* and the incremented seq; it is the item the driver pushes, and the k-th
\* notification the consumer pops is the k-th one pushed.
C13_NotificationContents ==
    /\ update.type # "None" =>
          /\ notif.update_timestamp = update.timestamp
          /\ notif.engine_send_ns = send_ns
          /\ notif.best_bid = book.cached_best_bid_
          /\ notif.best_ask = book.cached_best_ask_
          /\ notif.seq = book.seq_
          /\ book.seq_ = prev.seq_ + 1
          /\ InPush => p_item = notif
    /\ IsPrefix(popped, pushed)
    /\ \A i \in 1..Len(pushed) : pushed[i].seq = i

\* C13's case: the consumer has popped the notification of an insert and then
\* that of the delete that emptied the bid side, and the driver is pushing
\* the notification of a snapshot that set the best bid anew
C13_Witness ==
    /\ Len(popped) = 2
    /\ popped[1].best_bid.has /\ ~popped[2].best_bid.has
    /\ update.type = "Snapshot" /\ InPush
    /\ ~prev.cached_best_bid_.has /\ notif.best_bid.has
    /\ notif.seq = 3

\* a call of try_push that returns false, and a call of try_pop that returns nullopt
TryPushFails == p_pc = "idle" /\ calls'.producer = calls.producer + 1 /\ p_pc' = "idle"

TryPopFails == c_pc = "idle" /\ calls'.consumer = calls.consumer + 1 /\ c_pc' = "pop_returned"

\* C14 as stated: try_push returns false only when head - tail = Capacity at
\* the time of the call and try_pop returns nullopt only when head = tail at
\* the time of the call, also while the other side is in the middle of an
\* operation of its own.
C14_FailsOnlyFullOrEmpty ==
    [][/\ TryPushFails => head_ - tail_ = cap
       /\ TryPopFails => head_ = tail_]_vars

\* C14 as amended: try_push returns false only when the pushes completed
\* exceed the pops completed by Capacity (an element occupies its slot until
\* the pop that takes it has stored the slot's sequence number), and try_pop
\* returns nullopt only when every push completed has been popped (an element
\* is in the ring only once its push has stored the slot's sequence number).
C14_FailsOnlyOccupiedOrUnpublished ==
    [][/\ TryPushFails => Len(pushed) - Len(popped) = cap
       /\ TryPopFails => Len(pushed) = Len(popped)]_vars

\* C14's case: the last try_push returned false although head - tail is less
\* than Capacity, the consumer being between its store of tail and its store
\* of the sequence number of the slot the producer needs
C14_Witness ==
    /\ p_pc = "idle" /\ calls.producer > 0 /\ ~p_ret
    /\ c_pc = "pop_release"
    /\ SlotOf(c_pos) = SlotOf(head_)
    /\ head_ - tail_ = cap - 1
    /\ Len(pushed) - Len(popped) = cap

\* the producer is at or inside the placement new of its slot
ProducerWriting == p_pc \in {"push_construct", "push_constructed"}

\* the consumer is at or between the move out of its slot and the destructor
ConsumerAccessing == c_pc \in {"pop_move", "pop_destroy"}

\* the element the producer published for position pos
PublishedAt(pos) == pushed[pos + 1]

\* C17 (Capacity >= 2): the producer never writes the element storage of a
\* slot while the consumer reads or destroys the element in it; the consumer
\* moves out and destroys only an element whose construction has completed;
\* and the element it reads at position pos is the one the producer wrote
\* for position pos.
C17_PublicationSafety ==
    /\ ~(ProducerWriting /\ ConsumerAccessing /\ SlotOf(p_pos) = SlotOf(c_pos))
    /\ ConsumerAccessing =>
          /\ slots[SlotOf(c_pos)].st = "live"
          /\ Len(pushed) > c_pos
          /\ slots[SlotOf(c_pos)].item = PublishedAt(c_pos)
    /\ c_pc \in {"pop_destroy", "pop_release"} =>
          /\ Len(pushed) > c_pos
          /\ c_item = PublishedAt(c_pos)

\* C17's case: the consumer is about to move the element out of a slot that
\* has been used before while the producer is constructing in the other slot
C17_Witness ==
    /\ cap = 2
    /\ c_pc = "pop_move" /\ c_pos >= cap
    /\ p_pc = "push_constructed"
    /\ SlotOf(p_pos) # SlotOf(c_pos)
    /\ slots[SlotOf(p_pos)].st = "torn"
    /\ slots[SlotOf(c_pos)].st = "live"

\* pop(closed) takes its second look at the slot and returns nullopt
PopRecheckFails == c_pc = "pop_recheck" /\ c_pc' = "pop_returned"

\* C20: with a producer that pushes after it has stored closed = true,
\* pop(closed) returns nullopt only when closed is set and every push whose
\* publication completed before its re-check has been popped; a push
\* published after the re-check is not covered (C20_Witness: it stays in the
\* ring of a consumer that has been told the ring is closed and drained).
C20_RecheckCoversPublishedOnly ==
    [][PopRecheckFails => closed /\ popped = pushed]_vars

\* C20's case: pop(closed) has returned nullopt and an element pushed after
\* the close, published after the re-check, sits in the ring unpopped
C20_Witness ==
    /\ PopReturnedClosed
    /\ closed
    /\ p_pc = "idle"
    /\ Len(pushed) = Len(popped) + 1
    /\ slots[SlotOf(tail_)].st = "live"
    /\ slots[SlotOf(tail_)].seq = tail_ + 1
    /\ slots[SlotOf(tail_)].item = pushed[Len(pushed)]

\* C21: for every notification the strategy has recorded, the latency stored
\* plus the notification's engine_send_ns is a time the clock has reached:
\* recv_ns was not before engine_send_ns and recv_ns - engine_send_ns did
\* not wrap around; and no notification popped carries a send time the
\* clock has yet to reach.
C21_LatencyNonNegative ==
    /\ \A i \in 1..Len(popped) : popped[i].engine_send_ns <= clock
    /\ Len(stats.latencies) <= Len(popped)
    /\ \A i \in 1..Len(stats.latencies) :
          stats.latencies[i] + popped[i].engine_send_ns <= clock

\* C21's case: the second notification was sent after the clock had advanced
\* and was received later still
C21_Witness ==
    /\ Len(stats.latencies) = 2
    /\ popped[2].engine_send_ns > 0
    /\ stats.latencies[2] > 0

(***************************************************************************)
(* Claims about the ring's counters and sequence numbers.                  *)
(***************************************************************************)
\* occupancy is between 0 and Capacity, the counters count the pushes and
\* pops made (the one in progress included), and no construction has
\* landed on an element that had not been popped
OccupancyBounded ==
    /\ tail_ <= head_
    /\ head_ - tail_ <= cap
    /\ head_ \in {Len(pushed), Len(pushed) + 1}
    /\ tail_ \in {Len(popped), Len(popped) + 1}
    /\ ~calls.overwritten

\* a step leaves each counter alone or advances it by exactly 1, and a
\* push or pop that completes has advanced its own counter
CountersAdvance ==
    /\ head_' \in {head_, head_ + 1}
    /\ tail_' \in {tail_, tail_ + 1}
    /\ Len(pushed') = Len(pushed) + 1 => head_' = Len(pushed')
    /\ Len(popped') = Len(popped) + 1 => tail_' = Len(popped')

\* C24: for Capacity >= 2, in every reachable state of the ring under any
\* interleaving of one producer and one consumer, tail <= head and
\* head - tail <= Capacity; head and tail never decrease, each successful
\* push or pop advances its own counter by exactly 1, and push never
\* overwrites an element that has not been popped, also when more than
\* Capacity items are sent.
C24_BoundedOccupancy == [](OccupancyBounded) /\ [][CountersAdvance]_vars

\* C24's case: more than Capacity items sent, the ring full again after it
\* wrapped, and the blocking push waiting for a slot
C24_Witness ==
    /\ head_ > cap
    /\ head_ - tail_ = cap
    /\ p_pc = "push_spin"

\* C25: a try_push that returns false and a try_pop that returns nullopt
\* leave head, tail, every slot's sequence number and every slot's stored
\* element as they were (and the close flag with them), so the attempt can
\* be repeated any number of times from the same state of the ring.
C25_FailedAttemptsNoEffect ==
    [][(TryPushFails \/ TryPopFails) => UNCHANGED <<head_, tail_, slots, cap, closed>>]_vars

\* C25's case: try_push has failed at least twice, the last call included,
\* and so has try_pop, which has just returned nullopt
C25_Witness ==
    /\ p_pc = "idle" /\ ~p_ret /\ calls.producer >= head_ + 2
    /\ c_pc = "pop_returned" /\ ~c_ret.has /\ calls.consumer >= tail_ + 2
    /\ ~calls.blocking_pop
    /\ tail_ > 0

\* the positions that fall on slot i
PositionsOf(i) == {i + k * cap : k \in 0..(MaxOps + 1)}

\* slot i is free and awaits the push of position pos: that push has not
\* been published, and the storage is empty unless the producer is writing it
AwaitsPush(i, pos) ==
    /\ slots[i].seq = pos
    /\ pos >= Len(pushed)
    /\ \/ slots[i].st \in {"raw", "dead"}
       \/ p_pos = pos /\ p_pc \in {"push_constructed", "push_publish"}

\* slot i holds the element of position pos: it was published and not yet
\* released, and the storage holds that element unless the consumer has
\* just destroyed it
HoldsElement(i, pos) ==
    /\ slots[i].seq = pos + 1
    /\ Len(popped) <= pos /\ pos < Len(pushed)
    /\ \/ slots[i].st = "live" /\ slots[i].item = pushed[pos + 1]
       \/ slots[i].st = "dead" /\ c_pos = pos /\ c_pc = "pop_release"

\* the position the producer, and the consumer, tests next
ProducerPosition == IF p_pc = "push_spin" THEN p_pos ELSE head_

ConsumerPosition == IF c_pc \in {"pop_spin", "pop_recheck"} THEN c_pos ELSE tail_

\* C26: in every reachable state every slot i has a sequence number
\* i + k*Capacity or i + k*Capacity + 1 for some k >= 0; for Capacity >= 2
\* exactly one of the two applies, the first when the slot is free and
\* awaits the push of position i + k*Capacity, the second when it holds the
\* element of that position, and no slot is at once free for the
\* producer's position and ready for the consumer's.
C26_SlotSequenceProtocol ==
    \A i \in 0..(cap - 1) :
        /\ \E pos \in PositionsOf(i) : slots[i].seq \in {pos, pos + 1}
        /\ cap >= 2 =>
              /\ \E pos \in PositionsOf(i) : AwaitsPush(i, pos) \/ HoldsElement(i, pos)
              /\ \A pos, other \in PositionsOf(i) :
                    ~(slots[i].seq = pos /\ slots[i].seq = other + 1)
              /\ ~(/\ SlotOf(ProducerPosition) = i
                   /\ SlotOf(ConsumerPosition) = i
                   /\ SlotFree(slots[i].seq, ProducerPosition)
                   /\ SlotReady(slots[i].seq, ConsumerPosition))

\* C26's case: after the ring of two slots wrapped, both slots carry the
\* sequence number 2; slot 0 is free for position 2 and slot 1 holds the
\* element of position 1
C26_Witness ==
    /\ cap = 2
    /\ AwaitsPush(0, 2)
    /\ HoldsElement(1, 1)

(***************************************************************************)
(* Claims about snapshot level parsing (SpecLevels).                       *)
(***************************************************************************)
\* the levels a list of written pairs stands for, in the order written
LevelsWritten(ps) ==
    [i \in 1..Len(ps) |-> Level(ps[i][1] * 100, ps[i][2])]

SnapshotLineRead == p_pc = "parsed_line" /\ update.type = "Snapshot"

\* C23: a snapshot line whose bids and asks fields are arrays of k
\* bracketed [price, qty] pairs, k >= 0, yields an Update whose bids and
\* asks are exactly the k levels written, in the order written; an empty
\* array "[]" yields an empty list.
C23_LevelsParsed ==
    SnapshotLineRead =>
        /\ update.bids = LevelsWritten(written[1])
        /\ update.asks = LevelsWritten(written[2])

(***************************************************************************)
(* Claims about StrategyStats (SpecStats).                                 *)
(***************************************************************************)
RECURSIVE SumOf(_)
SumOf(q) == IF q = <<>> THEN 0 ELSE q[1] + SumOf(Tail(q))

Samples == {stats.latencies[i] : i \in 1..Len(stats.latencies)}

Smallest(S) == CHOOSE x \in S : \A y \in S : x <= y

Largest(S) == CHOOSE x \in S : \A y \in S : y <= x

\* count, min, max and avg_ns as the claim states them
StatsOtherFields ==
    /\ stats.count = Len(stats.latencies)
    /\ Samples # {} =>
          /\ stats.min_latency_ns = Smallest(Samples)
          /\ stats.max_latency_ns = Largest(Samples)
          /\ avg_ns(stats) * stats.count <= stats.total_latency_ns
          /\ stats.total_latency_ns < (avg_ns(stats) + 1) * stats.count
    /\ Samples = {} => avg_ns(stats) = 0

\* C22 as stated: after any sequence of record calls on a fresh
\* StrategyStats, count is the number of samples stored, total_latency_ns
\* is their sum, min_latency_ns and max_latency_ns are their minimum and
\* maximum, and avg_ns() is total_latency_ns / count rounded down, 0 when
\* there is no sample.
C22_StatsBookkeeping ==
    /\ stats.total_latency_ns = SumOf(stats.latencies)
    /\ StatsOtherFields

\* C22 amended: total_latency_ns is the sum of the samples modulo 2^64 (the
\* sum itself while it is below 2^64); count, min_latency_ns,
\* max_latency_ns and avg_ns() are as stated.
C22_StatsBookkeepingModular ==
    /\ stats.total_latency_ns = SumOf(stats.latencies) % Modulus
    /\ StatsOtherFields

\* C22's case: two different samples whose sum does not fit in uint64_t
C22_Witness ==
    /\ Len(stats.latencies) = 2
    /\ stats.latencies[1] < stats.latencies[2]
    /\ SumOf(stats.latencies) > UINT64_MAX

(***************************************************************************)
(* Claims about the ingest adapter (SpecParser).                           *)
(***************************************************************************)
\* C15: a line after the header that does not start with 's' or 'i', an 'i'
\* line with fewer than 9 comma-separated fields and an 's' line with fewer
\* than 7 quote-aware fields append no Update: the number of Updates produced
\* is the number of well-formed lines read.
C15_MalformedLinesSkipped == n_updates = lines_ok

(***************************************************************************)
(* Claims about main from its start (FairSpecMain).                        *)
(***************************************************************************)
\* main returned 1 with nothing of the pipeline set up or run
ExitedEmpty ==
    /\ ExitCode = 1
    /\ n_updates = 0
    /\ slots = NoSlots
    /\ c_pc = "unstarted"
    /\ calls.producer = 0 /\ calls.consumer = 0
    /\ book = EmptyBook /\ pushed = <<>>

\* main returned 0 with the pipeline run to completion
ExitedComplete ==
    /\ ExitCode = 0
    /\ n_updates >= 1
    /\ d_i = n_updates /\ book.seq_ = n_updates
    /\ closed
    /\ c_pc = "done"

\* C16: when parse_file yields no update (also when the file cannot be
\* opened) main returns 1 without creating the ring, starting the strategy
\* thread or applying an update; when it yields at least one update main
\* runs the pipeline to completion and returns 0.
C16_EmptyInputExit ==
    /\ [](ExitCode = 1 => ExitedEmpty)
    /\ [](ExitCode = 0 => ExitedComplete)
    /\ [](p_pc # "start" /\ n_updates = 0 => slots = NoSlots /\ c_pc = "unstarted")
    /\ (p_pc = "parsed" /\ n_updates = 0) ~> ExitedEmpty
    /\ (p_pc = "parsed" /\ n_updates >= 1) ~> ExitedComplete

\* C16's case: no update was parsed and main has returned 1
C16_Witness == ExitedEmpty /\ p_pc = "exit_1"

=============================================================================
